---- MODULE Spec2Model ----
(***************************************************************************)
(* The observer pattern of observerexamples_referencesemantics.h           *)
(* (namespace ReferenceSemantics, prefix R_) and of                        *)
(* observerexamples_valuesemantics.h (namespace ValueSemantics, prefix     *)
(* V_).  Both subjects keep a std::set<Observer*>: a set of addresses that *)
(* is iterated in ascending address order.                                 *)
(***************************************************************************)
EXTENDS Integers, Sequences, FiniteSets

\* Setter arguments are drawn from 0..MaxValue.
MaxValue == 1

\* Number of wrappers the benchmark keeps in its `observers` vector.
NumCopies == 3

VARIABLES
    R_addr,             \* address of each reference-semantics observer object
    R_class,            \* the class each of these objects was constructed as
    R_m_Observers,      \* Subject::m_Observers, a set of addresses
    R_m_ValueA,         \* SubjectSystem::m_ValueA
    R_m_ValueB,         \* SubjectSystem::m_ValueB
    R_m_Value,          \* m_Value of each SubjectObserverA / SubjectObserverB
    R_broadcasts,       \* SendNotification runs of the last operation
    V_addr,             \* address of each value-semantics Observer wrapper
    V_m_OnNotification, \* Observer::m_OnNotification of each wrapper
    V_m_Observers,      \* Subject::m_Observers, a set of addresses
    V_m_ValueA,         \* SubjectSystem::m_ValueA
    V_m_ValueB,         \* SubjectSystem::m_ValueB
    V_store,            \* the integers the callables write
    V_broadcasts,       \* SendNotification runs of the last operation
    attached,           \* observers whose last Attach/Detach was an Attach
    lastOp              \* the caller's last call and whether its observer was registered

R_vars == <<R_addr, R_class, R_m_Observers, R_m_ValueA, R_m_ValueB, R_m_Value,
           R_broadcasts>>

V_vars == <<V_addr, V_m_OnNotification, V_m_Observers, V_m_ValueA, V_m_ValueB,
            V_store, V_broadcasts>>

vars == <<R_vars, V_vars, attached, lastOp>>

Values == 0 .. MaxValue

Tags == {"ValueA", "ValueB"}

\* The three observers both unit tests create.
UnitObservers == {"observerA", "observerB", "observerBB"}

\* The elements of the free-function benchmark's `observers` vector.
BenchObservers == 1 .. NumCopies

\* The integers written by the value-semantics callables.
Cells == {"observerA.m_Value", "lambdaValueB", "freeFuncValueB"}

\* Every way of laying `objs` out in memory, up to the order of the addresses.
Placements(objs) ==
    {f \in [objs -> 1 .. Cardinality(objs)] :
        \A a, b \in objs : a # b => f[a] # f[b]}

\* The object a pointer points to.
ObjectAt(addr, p) == CHOOSE o \in DOMAIN addr : addr[o] = p

----------------------------------------------------------------------------
(* std::set<Observer*>                                                     *)

\* end(): the past-the-end position; no object lives at it.
End == 0

Smallest(S) == CHOOSE x \in S : \A y \in S : x <= y

\* begin()
Begin(S) == IF S = {} THEN End ELSE Smallest(S)

\* ++it advancing two positions, so that every other element is skipped.
Increment_Twice(S, it) ==
    LET rest == {x \in S : x > it}
        next == IF rest = {} THEN End ELSE Smallest(rest)
        rest2 == {x \in S : x > next}
    IN  IF next = End \/ rest2 = {} THEN End ELSE Smallest(rest2)

\* ++it
Increment(S, it) ==
    LET rest == {x \in S : x > it}
    IN  IF rest = {} THEN End ELSE Smallest(rest)

\* insert that removes a key it finds already present.
insert_Toggle(S, x) == IF x \in S THEN S \ {x} ELSE S \cup {x}

insert(S, x) == S \cup {x}

\* erase(lower_bound(x)): removes the first key not below x.
erase_LowerBound(S, x) ==
    LET rest == {y \in S : y >= x}
    IN  IF rest = {} THEN S ELSE S \ {Smallest(rest)}

erase(S, x) == S \ {x}

\* The const SubjectT& handed to a callback, read through the getters.
View(valueA, valueB) == [m_ValueA |-> valueA, m_ValueB |-> valueB]

GetValueA(subject) == subject.m_ValueA

GetValueB(subject) == subject.m_ValueB

\* One OnNotification call as it is logged.
Call(o, subject, tag) ==
    [observer |-> o, tag |-> tag,
     ValueA |-> GetValueA(subject), ValueB |-> GetValueB(subject)]

----------------------------------------------------------------------------
(* namespace ReferenceSemantics                                            *)

\* The class each unit-test observer is constructed as.
R_UnitClass(o) ==
    IF o = "observerA" THEN "SubjectObserverA" ELSE "SubjectObserverB"

\* SubjectObserverA::OnNotification, as the new m_Value of the observer.
\* SubjectObserverA::OnNotification reading the other field.
R_SubjectObserverA_OnNotification_ReadsB(m_Value, subject, tag) ==
    IF tag = "ValueA" THEN GetValueB(subject) ELSE m_Value

R_SubjectObserverA_OnNotification(m_Value, subject, tag) ==
    IF tag = "ValueA" THEN GetValueA(subject) ELSE m_Value

\* SubjectObserverB::OnNotification without the test of the tag.
R_SubjectObserverB_OnNotification_NoFilter(m_Value, subject, tag) ==
    GetValueB(subject)

\* SubjectObserverB::OnNotification, as the new m_Value of the observer.
R_SubjectObserverB_OnNotification(m_Value, subject, tag) ==
    IF tag = "ValueB" THEN GetValueB(subject) ELSE m_Value

\* observer->OnNotification(subject, tag): the virtual call.
R_OnNotification(o, values, subject, tag) ==
    [values EXCEPT ![o] =
        IF R_class[o] = "SubjectObserverA"
        THEN R_SubjectObserverA_OnNotification(values[o], subject, tag)
        ELSE R_SubjectObserverB_OnNotification(values[o], subject, tag)]

\* The range-for handing the subject over by non-const reference to callbacks
\* that reset the field they have read.
RECURSIVE R_Loop_Consumes(_, _, _, _, _)
R_Loop_Consumes(it, observers, subject, tag, acc) ==
    IF it = End
    THEN acc
    ELSE LET o == ObjectAt(R_addr, it)
         IN  R_Loop_Consumes(Increment(observers, it), observers,
                    IF tag = "ValueA" THEN View(0, GetValueB(subject))
                                      ELSE View(GetValueA(subject), 0),
                    tag,
                    [m_Value |-> R_OnNotification(o, acc.m_Value, subject, tag),
                     calls |-> Append(acc.calls, Call(o, subject, tag))])

\* The range-for of SendNotification from position `it` on.
RECURSIVE R_Loop(_, _, _, _, _)
R_Loop(it, observers, subject, tag, acc) ==
    IF it = End
    THEN acc
    ELSE LET o == ObjectAt(R_addr, it)
         IN  R_Loop(Increment(observers, it), observers, subject, tag,
                    [m_Value |-> R_OnNotification(o, acc.m_Value, subject, tag),
                     calls |-> Append(acc.calls, Call(o, subject, tag))])

\* Subject::SendNotification: the observers' values after it and its calls.
R_SendNotification(observers, subject, tag, values) ==
    R_Loop(Begin(observers), observers, subject, tag,
           [m_Value |-> values, calls |-> <<>>])

\* AttachObserver that refuses an observer that is already registered.
R_AttachObserver_RejectsDuplicate(observer) ==
    /\ observer \notin R_m_Observers
    /\ R_m_Observers' = insert(R_m_Observers, observer)
    /\ R_broadcasts' = <<>>
    /\ UNCHANGED <<R_addr, R_class, R_m_ValueA, R_m_ValueB, R_m_Value>>

\* AttachObserver that brings the new observer up to date with both fields.
R_AttachObserver_Synchronises(observer) ==
    LET o == ObjectAt(R_addr, observer)
        subject == View(R_m_ValueA, R_m_ValueB)
    IN  /\ R_m_Observers' = insert(R_m_Observers, observer)
        /\ R_m_Value' = R_OnNotification(o,
                            R_OnNotification(o, R_m_Value, subject, "ValueA"),
                            subject, "ValueB")
        /\ R_broadcasts' = <<>>
        /\ UNCHANGED <<R_addr, R_class, R_m_ValueA, R_m_ValueB>>

R_AttachObserver(observer) ==
    /\ R_m_Observers' = insert(R_m_Observers, observer)
    /\ R_broadcasts' = <<>>
    /\ UNCHANGED <<R_addr, R_class, R_m_ValueA, R_m_ValueB, R_m_Value>>

\* DetachObserver that forgets to erase.
R_DetachObserver_Keeps(observer) ==
    /\ R_broadcasts' = <<>>
    /\ UNCHANGED <<R_addr, R_class, R_m_Observers, R_m_ValueA, R_m_ValueB, R_m_Value>>

R_DetachObserver(observer) ==
    /\ R_m_Observers' = erase(R_m_Observers, observer)
    /\ R_broadcasts' = <<>>
    /\ UNCHANGED <<R_addr, R_class, R_m_ValueA, R_m_ValueB, R_m_Value>>

\* SetValueA that notifies before it stores.
R_SetValueA_NotifiesFirst(value) ==
    LET sent == R_SendNotification(R_m_Observers, View(R_m_ValueA, R_m_ValueB),
                                   "ValueA", R_m_Value)
    IN  /\ R_m_ValueA' = value
        /\ R_m_Value' = sent.m_Value
        /\ R_broadcasts' = <<[tag |-> "ValueA", calls |-> sent.calls]>>
        /\ UNCHANGED <<R_addr, R_class, R_m_Observers, R_m_ValueB>>

R_SetValueA(value) ==
    LET sent == R_SendNotification(R_m_Observers, View(value, R_m_ValueB),
                                   "ValueA", R_m_Value)
    IN  /\ R_m_ValueA' = value
        /\ R_m_Value' = sent.m_Value
        /\ R_broadcasts' = <<[tag |-> "ValueA", calls |-> sent.calls]>>
        /\ UNCHANGED <<R_addr, R_class, R_m_Observers, R_m_ValueB>>

\* SetValueB that stores into m_ValueA.
R_SetValueB_WritesA(value) ==
    LET sent == R_SendNotification(R_m_Observers, View(value, R_m_ValueB),
                                   "ValueB", R_m_Value)
    IN  /\ R_m_ValueA' = value
        /\ R_m_Value' = sent.m_Value
        /\ R_broadcasts' = <<[tag |-> "ValueB", calls |-> sent.calls]>>
        /\ UNCHANGED <<R_addr, R_class, R_m_Observers, R_m_ValueB>>

R_SetValueB(value) ==
    LET sent == R_SendNotification(R_m_Observers, View(R_m_ValueA, value),
                                   "ValueB", R_m_Value)
    IN  /\ R_m_ValueB' = value
        /\ R_m_Value' = sent.m_Value
        /\ R_broadcasts' = <<[tag |-> "ValueB", calls |-> sent.calls]>>
        /\ UNCHANGED <<R_addr, R_class, R_m_Observers, R_m_ValueA>>

----------------------------------------------------------------------------
(* namespace ValueSemantics                                                *)

\* The lambda wired by SubjectObserverA(): writes the captured m_Value.
V_SubjectObserverA_lambda(value, store, subject, tag) ==
    IF tag = "ValueA"
    THEN [store EXCEPT ![value] = GetValueA(subject)]
    ELSE store

\* The lambda of the unit test's observerB reading the other field.
V_observerB_lambda_ReadsA(value, store, subject, tag) ==
    IF tag = "ValueB"
    THEN [store EXCEPT ![value] = GetValueA(subject)]
    ELSE store

\* The lambda of the unit test's observerB copying the free function's variable.
V_observerB_lambda_ReadsGlobal(value, store, subject, tag) ==
    IF tag = "ValueB"
    THEN [store EXCEPT ![value] = store["freeFuncValueB"]]
    ELSE store

\* The lambda of the unit test's observerB: writes the captured lambdaValueB.
V_observerB_lambda(value, store, subject, tag) ==
    IF tag = "ValueB"
    THEN [store EXCEPT ![value] = GetValueB(subject)]
    ELSE store

\* The free function OnNotification testing for the other tag.
V_FreeOnNotification_WrongTag(store, subject, tag) ==
    IF tag = "ValueA"
    THEN [store EXCEPT !["freeFuncValueB"] = GetValueB(subject)]
    ELSE store

\* The free function OnNotification: writes the global freeFuncValueB.
V_FreeOnNotification(store, subject, tag) ==
    IF tag = "ValueB"
    THEN [store EXCEPT !["freeFuncValueB"] = GetValueB(subject)]
    ELSE store

\* Observer::OnNotification: invokes the stored std::function.
V_OnNotification(func, store, subject, tag) ==
    CASE func.target = "SubjectObserverA::lambda" ->
            V_SubjectObserverA_lambda(func.value, store, subject, tag)
      [] func.target = "observerB::lambda" ->
            V_observerB_lambda(func.value, store, subject, tag)
      [] func.target = "OnNotification" ->
            V_FreeOnNotification(store, subject, tag)

\* The callable each unit-test wrapper is constructed from.
V_UnitCallable(o) ==
    CASE o = "observerA" ->
            [target |-> "SubjectObserverA::lambda", value |-> "observerA.m_Value"]
      [] o = "observerB" ->
            [target |-> "observerB::lambda", value |-> "lambdaValueB"]
      [] o = "observerBB" ->
            [target |-> "OnNotification", value |-> "none"]

\* The callable every copy of observerFreeFunction holds.
V_BenchCallable(o) == [target |-> "OnNotification", value |-> "none"]

\* The range-for of SendNotification from position `it` on.
RECURSIVE V_Loop(_, _, _, _, _)
V_Loop(it, observers, subject, tag, acc) ==
    IF it = End
    THEN acc
    ELSE LET o == ObjectAt(V_addr, it)
         IN  V_Loop(Increment(observers, it), observers, subject, tag,
                    [store |-> V_OnNotification(V_m_OnNotification[o], acc.store,
                                                subject, tag),
                     calls |-> Append(acc.calls, Call(o, subject, tag))])

\* Subject::SendNotification: the written integers after it and its calls.
V_SendNotification(observers, subject, tag, store) ==
    V_Loop(Begin(observers), observers, subject, tag,
           [store |-> store, calls |-> <<>>])

\* AttachObserver into a set keyed by the stored callable, not by the address.
V_AttachObserver_ByCallable(observer) ==
    /\ V_m_Observers' =
          IF \E p \in V_m_Observers :
                V_m_OnNotification[ObjectAt(V_addr, p)]
                    = V_m_OnNotification[ObjectAt(V_addr, observer)]
          THEN V_m_Observers
          ELSE insert(V_m_Observers, observer)
    /\ V_broadcasts' = <<>>
    /\ UNCHANGED <<V_addr, V_m_OnNotification, V_m_ValueA, V_m_ValueB, V_store>>

V_AttachObserver(observer) ==
    /\ V_m_Observers' = insert(V_m_Observers, observer)
    /\ V_broadcasts' = <<>>
    /\ UNCHANGED <<V_addr, V_m_OnNotification, V_m_ValueA, V_m_ValueB, V_store>>

\* DetachObserver that forgets to erase.
V_DetachObserver_Keeps(observer) ==
    /\ V_broadcasts' = <<>>
    /\ UNCHANGED <<V_addr, V_m_OnNotification, V_m_Observers, V_m_ValueA, V_m_ValueB,
                   V_store>>

V_DetachObserver(observer) ==
    /\ V_m_Observers' = erase(V_m_Observers, observer)
    /\ V_broadcasts' = <<>>
    /\ UNCHANGED <<V_addr, V_m_OnNotification, V_m_ValueA, V_m_ValueB, V_store>>

V_SetValueA(value) ==
    LET sent == V_SendNotification(V_m_Observers, View(value, V_m_ValueB),
                                   "ValueA", V_store)
    IN  /\ V_m_ValueA' = value
        /\ V_store' = sent.store
        /\ V_broadcasts' = <<[tag |-> "ValueA", calls |-> sent.calls]>>
        /\ UNCHANGED <<V_addr, V_m_OnNotification, V_m_Observers, V_m_ValueB>>

\* SetValueB that stores and leaves the notification for later.
V_SetValueB_Defers(value) ==
    /\ V_m_ValueB' = value
    /\ V_broadcasts' = <<>>
    /\ UNCHANGED <<V_addr, V_m_OnNotification, V_m_Observers, V_m_ValueA, V_store>>

V_SetValueB(value) ==
    LET sent == V_SendNotification(V_m_Observers, View(V_m_ValueA, value),
                                   "ValueB", V_store)
    IN  /\ V_m_ValueB' = value
        /\ V_store' = sent.store
        /\ V_broadcasts' = <<[tag |-> "ValueB", calls |-> sent.calls]>>
        /\ UNCHANGED <<V_addr, V_m_OnNotification, V_m_Observers, V_m_ValueA>>

----------------------------------------------------------------------------
(* The two unit tests' objects, driven side by side by one caller.         *)

Init ==
    /\ R_addr \in Placements(UnitObservers)
    /\ R_class = [o \in UnitObservers |-> R_UnitClass(o)]
    /\ R_m_Observers = {}
    /\ R_m_ValueA = 0
    /\ R_m_ValueB = 0
    /\ R_m_Value = [o \in UnitObservers |-> 0]
    /\ R_broadcasts = <<>>
    /\ V_addr \in Placements(UnitObservers)
    /\ V_m_OnNotification = [o \in UnitObservers |-> V_UnitCallable(o)]
    /\ V_m_Observers = {}
    /\ V_m_ValueA = 0
    /\ V_m_ValueB = 0
    /\ V_store = [c \in Cells |-> 0]
    /\ V_broadcasts = <<>>
    /\ attached = {}
    /\ lastOp = [op |-> "none"]

AttachObserver(o) ==
    /\ R_AttachObserver(R_addr[o])
    /\ V_AttachObserver(V_addr[o])
    /\ attached' = attached \cup {o}
    /\ lastOp' = [op |-> "AttachObserver", observer |-> o,
                  wasRegistered |-> R_addr[o] \in R_m_Observers]

DetachObserver(o) ==
    /\ R_DetachObserver(R_addr[o])
    /\ V_DetachObserver(V_addr[o])
    /\ attached' = attached \ {o}
    /\ lastOp' = [op |-> "DetachObserver", observer |-> o,
                  wasRegistered |-> R_addr[o] \in R_m_Observers]

SetValueA(value) ==
    /\ R_SetValueA(value)
    /\ V_SetValueA(value)
    /\ lastOp' = [op |-> "SetValueA", value |-> value]
    /\ UNCHANGED attached

SetValueB(value) ==
    /\ R_SetValueB(value)
    /\ V_SetValueB(value)
    /\ lastOp' = [op |-> "SetValueB", value |-> value]
    /\ UNCHANGED attached

Next ==
    \/ \E o \in UnitObservers : AttachObserver(o)
    \/ \E o \in UnitObservers : DetachObserver(o)
    \/ \E value \in Values : SetValueA(value)
    \/ \E value \in Values : SetValueB(value)

Spec == Init /\ [][Next]_vars

----------------------------------------------------------------------------
(* The free-function benchmark's objects: NumCopies wrappers copied from   *)
(* observerFreeFunction, all holding the same callable.  No object of the  *)
(* reference-semantics namespace exists in it.                             *)

BenchInit ==
    /\ R_addr = << >>
    /\ R_class = << >>
    /\ R_m_Observers = {}
    /\ R_m_ValueA = 0
    /\ R_m_ValueB = 0
    /\ R_m_Value = << >>
    /\ R_broadcasts = <<>>
    /\ V_addr \in Placements(BenchObservers)
    /\ V_m_OnNotification = [o \in BenchObservers |-> V_BenchCallable(o)]
    /\ V_m_Observers = {}
    /\ V_m_ValueA = 0
    /\ V_m_ValueB = 0
    /\ V_store = [c \in Cells |-> 0]
    /\ V_broadcasts = <<>>
    /\ attached = {}
    /\ lastOp = [op |-> "none"]

BenchAttachObserver(o) ==
    /\ V_AttachObserver(V_addr[o])
    /\ attached' = attached \cup {o}
    /\ lastOp' = [op |-> "AttachObserver", observer |-> o,
                  wasRegistered |-> V_addr[o] \in V_m_Observers]
    /\ UNCHANGED R_vars

BenchDetachObserver(o) ==
    /\ V_DetachObserver(V_addr[o])
    /\ attached' = attached \ {o}
    /\ lastOp' = [op |-> "DetachObserver", observer |-> o,
                  wasRegistered |-> V_addr[o] \in V_m_Observers]
    /\ UNCHANGED R_vars

BenchSetValueA(value) ==
    /\ V_SetValueA(value)
    /\ lastOp' = [op |-> "SetValueA", value |-> value]
    /\ UNCHANGED <<R_vars, attached>>

BenchSetValueB(value) ==
    /\ V_SetValueB(value)
    /\ lastOp' = [op |-> "SetValueB", value |-> value]
    /\ UNCHANGED <<R_vars, attached>>

BenchNext ==
    \/ \E o \in BenchObservers : BenchAttachObserver(o)
    \/ \E o \in BenchObservers : BenchDetachObserver(o)
    \/ \E value \in Values : BenchSetValueA(value)
    \/ \E value \in Values : BenchSetValueB(value)

BenchSpec == BenchInit /\ [][BenchNext]_vars

----------------------------------------------------------------------------
(* What a caller can observe.                                              *)

\* The observers whose address is in the subject's set.
R_Registered == {o \in DOMAIN R_addr : R_addr[o] \in R_m_Observers}

V_Registered == {o \in DOMAIN V_addr : V_addr[o] \in V_m_Observers}

\* The observers one SendNotification run called, and how often it called o.
Notified(b) == {b.calls[k].observer : k \in DOMAIN b.calls}

TimesCalled(b, o) == Cardinality({k \in DOMAIN b.calls : b.calls[k].observer = o})

\* SubjectObserverA::GetValue / SubjectObserverB::GetValue.
R_GetValue(o) == R_m_Value[o]

\* What the value-semantics unit test reads for each of its observers:
\* observerA.GetValue(), lambdaValueB and freeFuncValueB.
V_GetValue(o) ==
    CASE o = "observerA" -> V_store["observerA.m_Value"]
      [] o = "observerB" -> V_store["lambdaValueB"]
      [] o = "observerBB" -> V_store["freeFuncValueB"]

\* The tag each unit-test observer acts on.
ActsOn(o) == IF o = "observerA" THEN "ValueA" ELSE "ValueB"

IsSetter == lastOp.op \in {"SetValueA", "SetValueB"}

----------------------------------------------------------------------------
(* Claims                                                                  *)

\* C1: a broadcast calls OnNotification on an observer if and only if the
\* last AttachObserver/DetachObserver applied to that observer was an
\* AttachObserver; observers never attached, or detached last, are not called.
C1_NotifiedIffAttachedLast ==
    /\ \A i \in DOMAIN R_broadcasts : Notified(R_broadcasts[i]) = attached
    /\ \A i \in DOMAIN V_broadcasts : Notified(V_broadcasts[i]) = attached
    /\ IsSetter => R_broadcasts # <<>> /\ V_broadcasts # <<>>

C1_Witness ==
    /\ IsSetter
    /\ attached # {} /\ attached # UnitObservers
    /\ Notified(R_broadcasts[1]) = attached
    /\ Notified(V_broadcasts[1]) = attached

\* C2: in every broadcast each registered observer is called exactly once, so
\* the number of calls of a broadcast is the size of the registered set.
C2_EachRegisteredCalledOnce ==
    /\ \A i \in DOMAIN R_broadcasts :
          /\ Len(R_broadcasts[i].calls) = Cardinality(R_m_Observers)
          /\ \A o \in R_Registered : TimesCalled(R_broadcasts[i], o) = 1
    /\ \A i \in DOMAIN V_broadcasts :
          /\ Len(V_broadcasts[i].calls) = Cardinality(V_m_Observers)
          /\ \A o \in V_Registered : TimesCalled(V_broadcasts[i], o) = 1

C2_Witness ==
    /\ IsSetter
    /\ Cardinality(R_m_Observers) = Cardinality(UnitObservers)
    /\ Len(R_broadcasts[1].calls) = Cardinality(UnitObservers)
    /\ Cardinality(V_m_Observers) = Cardinality(UnitObservers)
    /\ Len(V_broadcasts[1].calls) = Cardinality(UnitObservers)

\* C3: AttachObserver of an observer that is already registered leaves the
\* registered set (and everything else of the subject and the observers)
\* unchanged, and one DetachObserver afterwards unregisters the observer.
C3_AttachIdempotent ==
    [][/\ \A o \in UnitObservers :
            (lastOp'.op = "AttachObserver" /\ lastOp'.observer = o) =>
                /\ o \in R_Registered' /\ o \in V_Registered'
                /\ o \in R_Registered =>
                      UNCHANGED <<R_m_Observers, R_m_ValueA, R_m_ValueB, R_m_Value>>
                /\ o \in V_Registered =>
                      UNCHANGED <<V_m_Observers, V_m_ValueA, V_m_ValueB, V_store>>
       /\ \A o \in UnitObservers :
            (lastOp'.op = "DetachObserver" /\ lastOp'.observer = o) =>
                o \notin R_Registered' /\ o \notin V_Registered'
      ]_vars

C3_Witness ==
    /\ lastOp.op = "AttachObserver"
    /\ lastOp.wasRegistered
    /\ lastOp.observer \in R_Registered
    /\ lastOp.observer \in V_Registered
    /\ Cardinality(R_m_Observers) = 1
    /\ Cardinality(V_m_Observers) = 1

\* C4: DetachObserver of an observer that is not registered is always possible
\* and changes neither the registered set, nor the subject's two fields, nor
\* any observer's cached value.
C4_DetachAbsentIsNoOp ==
    /\ [](\A o \in UnitObservers : ENABLED DetachObserver(o))
    /\ [][\A o \in UnitObservers :
            (lastOp'.op = "DetachObserver" /\ lastOp'.observer = o) =>
                /\ o \notin R_Registered =>
                      UNCHANGED <<R_m_Observers, R_m_ValueA, R_m_ValueB, R_m_Value>>
                /\ o \notin V_Registered =>
                      UNCHANGED <<V_m_Observers, V_m_ValueA, V_m_ValueB, V_store>>
         ]_vars

C4_Witness ==
    /\ lastOp.op = "DetachObserver"
    /\ ~lastOp.wasRegistered
    /\ R_Registered = UnitObservers \ {lastOp.observer}
    /\ V_Registered = UnitObservers \ {lastOp.observer}

\* What a setter call with argument `value` for `tag` leaves in the log: one
\* broadcast of that tag, each of whose calls saw `value` in the tag's field.
OneBroadcast(broadcasts, tag, value) ==
    /\ Len(broadcasts) = 1
    /\ broadcasts[1].tag = tag
    /\ \A k \in DOMAIN broadcasts[1].calls :
          /\ broadcasts[1].calls[k].tag = tag
          /\ tag = "ValueA" => broadcasts[1].calls[k].ValueA = value
          /\ tag = "ValueB" => broadcasts[1].calls[k].ValueB = value

\* C5: SetValueA(v) (SetValueB(v)) stores v and then runs exactly one
\* broadcast of tag ValueA (ValueB), every call of which reads v through the
\* getter; nothing but a setter call runs a broadcast.
C5_StoreThenOneBroadcast ==
    /\ lastOp.op = "SetValueA" =>
          /\ R_m_ValueA = lastOp.value /\ V_m_ValueA = lastOp.value
          /\ OneBroadcast(R_broadcasts, "ValueA", lastOp.value)
          /\ OneBroadcast(V_broadcasts, "ValueA", lastOp.value)
    /\ lastOp.op = "SetValueB" =>
          /\ R_m_ValueB = lastOp.value /\ V_m_ValueB = lastOp.value
          /\ OneBroadcast(R_broadcasts, "ValueB", lastOp.value)
          /\ OneBroadcast(V_broadcasts, "ValueB", lastOp.value)
    /\ ~IsSetter => R_broadcasts = <<>> /\ V_broadcasts = <<>>

C5_Witness ==
    /\ lastOp.op = "SetValueA"
    /\ lastOp.value # 0
    /\ OneBroadcast(R_broadcasts, "ValueA", lastOp.value)
    /\ OneBroadcast(V_broadcasts, "ValueA", lastOp.value)
    /\ Len(R_broadcasts[1].calls) > 1
    /\ Len(V_broadcasts[1].calls) > 1

\* C6: a broadcast of tag ValueA leaves the cached value of every observer
\* that acts on ValueB unchanged, and a broadcast of tag ValueB leaves the
\* cached value of every observer that acts on ValueA unchanged.
C6_TagFiltering ==
    [][\A o \in UnitObservers :
          /\ (lastOp'.op = "SetValueA" /\ ActsOn(o) = "ValueB") =>
                /\ R_GetValue(o)' = R_GetValue(o)
                /\ V_GetValue(o)' = V_GetValue(o)
          /\ (lastOp'.op = "SetValueB" /\ ActsOn(o) = "ValueA") =>
                /\ R_GetValue(o)' = R_GetValue(o)
                /\ V_GetValue(o)' = V_GetValue(o)
      ]_vars

C6_Witness ==
    /\ lastOp.op = "SetValueA"
    /\ R_Registered = UnitObservers /\ V_Registered = UnitObservers
    /\ R_GetValue("observerA") = lastOp.value /\ V_GetValue("observerA") = lastOp.value
    /\ R_GetValue("observerB") # lastOp.value /\ V_GetValue("observerB") # lastOp.value
    /\ R_GetValue("observerB") # R_m_ValueB /\ V_GetValue("observerB") # V_m_ValueB

\* C7: a broadcast leaves the cached value of every observer whose last
\* Attach/Detach was not an Attach unchanged, while every attached observer
\* that acts on the broadcast's tag takes the new value.
C7_DetachedKeepsLastValue ==
    [][\A o \in UnitObservers :
          (lastOp'.op \in {"SetValueA", "SetValueB"}) =>
              /\ o \notin attached =>
                    /\ R_GetValue(o)' = R_GetValue(o)
                    /\ V_GetValue(o)' = V_GetValue(o)
              /\ (o \in attached /\ lastOp'.op = "SetValueA" /\ ActsOn(o) = "ValueA") =>
                    /\ R_GetValue(o)' = lastOp'.value
                    /\ V_GetValue(o)' = lastOp'.value
              /\ (o \in attached /\ lastOp'.op = "SetValueB" /\ ActsOn(o) = "ValueB") =>
                    /\ R_GetValue(o)' = lastOp'.value
                    /\ V_GetValue(o)' = lastOp'.value
      ]_vars

C7_Witness ==
    /\ lastOp.op = "SetValueB"
    /\ attached = UnitObservers \ {"observerBB"}
    /\ R_GetValue("observerBB") # 0 /\ V_GetValue("observerBB") # 0
    /\ R_GetValue("observerBB") # R_m_ValueB /\ V_GetValue("observerBB") # V_m_ValueB
    /\ R_GetValue("observerB") = R_m_ValueB /\ V_GetValue("observerB") = V_m_ValueB

\* C8: when SetValueA(v) or SetValueB(v) has returned, every registered
\* observer has been called in that broadcast, the matching getter returns v
\* and every registered observer that acts on the setter's tag has cached v.
C8_DeliveredAtReturn ==
    /\ IsSetter =>
          /\ R_broadcasts # <<>> /\ V_broadcasts # <<>>
          /\ \A i \in DOMAIN R_broadcasts : Notified(R_broadcasts[i]) = R_Registered
          /\ \A i \in DOMAIN V_broadcasts : Notified(V_broadcasts[i]) = V_Registered
    /\ lastOp.op = "SetValueA" =>
          /\ R_m_ValueA = lastOp.value /\ V_m_ValueA = lastOp.value
          /\ \A o \in R_Registered : ActsOn(o) = "ValueA" => R_GetValue(o) = lastOp.value
          /\ \A o \in V_Registered : ActsOn(o) = "ValueA" => V_GetValue(o) = lastOp.value
    /\ lastOp.op = "SetValueB" =>
          /\ R_m_ValueB = lastOp.value /\ V_m_ValueB = lastOp.value
          /\ \A o \in R_Registered : ActsOn(o) = "ValueB" => R_GetValue(o) = lastOp.value
          /\ \A o \in V_Registered : ActsOn(o) = "ValueB" => V_GetValue(o) = lastOp.value

C8_Witness ==
    /\ lastOp.op = "SetValueB"
    /\ lastOp.value # 0
    /\ {"observerB", "observerBB"} \subseteq R_Registered
    /\ {"observerB", "observerBB"} \subseteq V_Registered
    /\ R_GetValue("observerB") = lastOp.value /\ R_GetValue("observerBB") = lastOp.value
    /\ V_GetValue("observerB") = lastOp.value /\ V_GetValue("observerBB") = lastOp.value

\* C9: driven by the same calls, the two variants agree after every call on
\* GetValueA, on GetValueB, on which observers are registered and on every
\* observer's cached value.
C9_VariantsAgree ==
    /\ R_m_ValueA = V_m_ValueA
    /\ R_m_ValueB = V_m_ValueB
    /\ R_Registered = V_Registered
    /\ \A o \in UnitObservers : R_GetValue(o) = V_GetValue(o)

C9_Witness ==
    /\ lastOp.op = "SetValueB"
    /\ R_m_ValueA # R_m_ValueB
    /\ R_Registered = {"observerA", "observerB"}
    /\ R_GetValue("observerA") # R_m_ValueA
    /\ R_GetValue("observerB") = R_m_ValueB
    /\ R_GetValue("observerBB") # R_m_ValueB
    /\ C9_VariantsAgree

\* C10: the registered set is keyed by the wrapper's address, not by what the
\* wrapper holds: wrappers holding the same callable are registered one by
\* one, each registered wrapper is called once per broadcast, detaching one
\* leaves the others registered, and no address is held twice.
C10_MembershipByIdentity ==
    /\ V_Registered = attached
    /\ Cardinality(V_m_Observers) = Cardinality(attached)
    /\ \A i \in DOMAIN V_broadcasts :
          /\ Len(V_broadcasts[i].calls) = Cardinality(attached)
          /\ \A o \in attached : TimesCalled(V_broadcasts[i], o) = 1

C10_Witness ==
    /\ lastOp.op = "DetachObserver"
    /\ lastOp.wasRegistered
    /\ lastOp.observer \notin V_Registered
    /\ Cardinality(V_m_Observers) > 1
    /\ \A o \in V_Registered :
          V_m_OnNotification[o] = V_m_OnNotification[lastOp.observer]

\* The fields every call of a broadcast log saw are the fields given.
CallsSaw(broadcasts, valueA, valueB) ==
    \A i \in DOMAIN broadcasts : \A k \in DOMAIN broadcasts[i].calls :
        /\ broadcasts[i].calls[k].ValueA = valueA
        /\ broadcasts[i].calls[k].ValueB = valueB

\* C11: SetValueA(v) changes neither ValueB nor the registered set,
\* SetValueB(v) changes neither ValueA nor the registered set, AttachObserver
\* and DetachObserver change neither field, and no callback changes a field:
\* the fields after the call are the fields every callback saw.
C11_FieldsIndependent ==
    [][/\ lastOp'.op = "SetValueA" =>
            /\ UNCHANGED <<R_m_ValueB, R_m_Observers, V_m_ValueB, V_m_Observers>>
            /\ R_m_ValueA' = lastOp'.value /\ V_m_ValueA' = lastOp'.value
       /\ lastOp'.op = "SetValueB" =>
            /\ UNCHANGED <<R_m_ValueA, R_m_Observers, V_m_ValueA, V_m_Observers>>
            /\ R_m_ValueB' = lastOp'.value /\ V_m_ValueB' = lastOp'.value
       /\ lastOp'.op \in {"AttachObserver", "DetachObserver"} =>
            UNCHANGED <<R_m_ValueA, R_m_ValueB, V_m_ValueA, V_m_ValueB>>
       /\ CallsSaw(R_broadcasts', R_m_ValueA', R_m_ValueB')
       /\ CallsSaw(V_broadcasts', V_m_ValueA', V_m_ValueB')
      ]_vars

C11_Witness ==
    /\ lastOp.op = "SetValueA"
    /\ R_m_ValueA = lastOp.value /\ V_m_ValueA = lastOp.value
    /\ R_m_ValueB # lastOp.value /\ V_m_ValueB # lastOp.value
    /\ R_m_ValueB # 0 /\ V_m_ValueB # 0
    /\ R_Registered = UnitObservers /\ V_Registered = UnitObservers

\* C12: in every reachable state AttachObserver and DetachObserver can be
\* called for every observer, SetValueA and SetValueB for every value, and
\* both getters return a value.
C12_OperationsTotal ==
    [](/\ \A o \in UnitObservers :
            ENABLED AttachObserver(o) /\ ENABLED DetachObserver(o)
       /\ \A value \in Values :
            ENABLED SetValueA(value) /\ ENABLED SetValueB(value)
       /\ GetValueA(View(R_m_ValueA, R_m_ValueB)) \in Values
       /\ GetValueB(View(R_m_ValueA, R_m_ValueB)) \in Values
       /\ GetValueA(View(V_m_ValueA, V_m_ValueB)) \in Values
       /\ GetValueB(View(V_m_ValueA, V_m_ValueB)) \in Values)

C12_Witness ==
    /\ lastOp.op = "AttachObserver"
    /\ lastOp.wasRegistered
    /\ R_Registered = UnitObservers /\ V_Registered = UnitObservers
    /\ R_m_ValueA # 0 /\ R_m_ValueB # 0
    /\ ENABLED AttachObserver(lastOp.observer)
    /\ ENABLED DetachObserver(lastOp.observer)

\* ---------------------------------------------------------------------------
\* The unit tests' scenario: the calls of both TEST_CASEs in their order, from
\* the freshly constructed objects. lastOp tells how far the test has come.
ScenarioInit == Init

ScenarioAttachA == lastOp.op = "none" /\ AttachObserver("observerA")

ScenarioAttachB ==
    /\ lastOp.op = "AttachObserver" /\ lastOp.observer = "observerA"
    /\ AttachObserver("observerB")

ScenarioAttachBB ==
    /\ lastOp.op = "AttachObserver" /\ lastOp.observer = "observerB"
    /\ AttachObserver("observerBB")

ScenarioSetValueA1 ==
    /\ lastOp.op = "AttachObserver" /\ lastOp.observer = "observerBB"
    /\ SetValueA(1)

ScenarioSetValueB2 == lastOp.op = "SetValueA" /\ SetValueB(2)

ScenarioDetachBB ==
    /\ lastOp.op = "SetValueB" /\ lastOp.value = 2
    /\ DetachObserver("observerBB")

ScenarioSetValueB3 == lastOp.op = "DetachObserver" /\ SetValueB(3)

ScenarioNext ==
    \/ ScenarioAttachA
    \/ ScenarioAttachB
    \/ ScenarioAttachBB
    \/ ScenarioSetValueA1
    \/ ScenarioSetValueB2
    \/ ScenarioDetachBB
    \/ ScenarioSetValueB3

ScenarioSpec == ScenarioInit /\ [][ScenarioNext]_vars

\* What the tests read: the three caches and the two fields of each variant.
Reads(a, b, bb, valueA, valueB) ==
    /\ R_GetValue("observerA") = a /\ V_GetValue("observerA") = a
    /\ R_GetValue("observerB") = b /\ V_GetValue("observerB") = b
    /\ R_GetValue("observerBB") = bb /\ V_GetValue("observerBB") = bb
    /\ GetValueA(View(R_m_ValueA, R_m_ValueB)) = valueA
    /\ GetValueA(View(V_m_ValueA, V_m_ValueB)) = valueA
    /\ GetValueB(View(R_m_ValueA, R_m_ValueB)) = valueB
    /\ GetValueB(View(V_m_ValueA, V_m_ValueB)) = valueB

\* C13: in both variants, from fields 0/0 and caches 0 with A, B and BB
\* attached: after SetValueA(1) the caches are A=1, B=0, BB=0 and the fields
\* (1,0); after SetValueB(2) they are A=1, B=2, BB=2 and (1,2); after
\* DetachObserver(BB) and SetValueB(3) they are A=1, B=3, BB=2 and (1,3).
C13_UnitTestScenario ==
    /\ lastOp.op \in {"none", "AttachObserver"} => Reads(0, 0, 0, 0, 0)
    /\ lastOp.op = "SetValueA" => lastOp.value = 1 /\ Reads(1, 0, 0, 1, 0)
    /\ lastOp.op = "SetValueB" /\ lastOp.value = 2 => Reads(1, 2, 2, 1, 2)
    /\ lastOp.op = "DetachObserver" => Reads(1, 2, 2, 1, 2)
    /\ lastOp.op = "SetValueB" /\ lastOp.value # 2 =>
            lastOp.value = 3 /\ Reads(1, 3, 2, 1, 3)

C13_Witness ==
    /\ lastOp.op = "SetValueB" /\ lastOp.value = 3
    /\ R_Registered = {"observerA", "observerB"}
    /\ V_Registered = {"observerA", "observerB"}
    /\ "observerBB" \notin attached
    /\ Reads(1, 3, 2, 1, 3)

\* Every call of the broadcast got the tag and the fields its first call got,
\* and those are the tag of the broadcast and the fields given.
SameView(b, valueA, valueB) ==
    \A k \in DOMAIN b.calls :
        /\ b.calls[k].tag = b.calls[1].tag
        /\ b.calls[k].ValueA = b.calls[1].ValueA
        /\ b.calls[k].ValueB = b.calls[1].ValueB
        /\ b.calls[k].tag = b.tag
        /\ b.calls[k].ValueA = valueA
        /\ b.calls[k].ValueB = valueB

\* C14: within one broadcast every callback receives the same tag and the
\* same view of the subject, the first notified observer seeing the fields the
\* last one sees, and the broadcast leaves the subject as it found it: the
\* fields at its end are the fields the callbacks saw and the registered set
\* at its end is the set of observers it has called.
C14_SameViewThroughout ==
    /\ \A i \in DOMAIN R_broadcasts :
          /\ SameView(R_broadcasts[i], R_m_ValueA, R_m_ValueB)
          /\ Notified(R_broadcasts[i]) = R_Registered
    /\ \A i \in DOMAIN V_broadcasts :
          /\ SameView(V_broadcasts[i], V_m_ValueA, V_m_ValueB)
          /\ Notified(V_broadcasts[i]) = V_Registered

C14_Witness ==
    /\ lastOp.op = "SetValueB"
    /\ Len(R_broadcasts) = 1 /\ Len(V_broadcasts) = 1
    /\ Len(R_broadcasts[1].calls) = 3 /\ Len(V_broadcasts[1].calls) = 3
    /\ R_broadcasts[1].calls[1].ValueB = lastOp.value
    /\ R_broadcasts[1].calls[3].ValueB = lastOp.value
    /\ V_broadcasts[1].calls[1].ValueA = V_broadcasts[1].calls[3].ValueA
    /\ lastOp.value # 0 /\ R_m_ValueA # 0 /\ V_m_ValueA # 0

\* The subject's field an observer's tag names.
R_Field(o) == IF ActsOn(o) = "ValueA" THEN R_m_ValueA ELSE R_m_ValueB

V_Field(o) == IF ActsOn(o) = "ValueA" THEN V_m_ValueA ELSE V_m_ValueB

\* C17: AttachObserver and DetachObserver call no observer and change nothing
\* but the membership of the observer given: fields, caches and the
\* membership of every other observer stay as they were. An observer's cache
\* changes in no step other than a call of the setter of its tag, so a newly
\* attached observer keeps its old cached value until that setter is called.
C17_AttachDetachSilent ==
    [][/\ lastOp'.op \in {"AttachObserver", "DetachObserver"} =>
            /\ R_broadcasts' = <<>> /\ V_broadcasts' = <<>>
            /\ UNCHANGED <<R_m_ValueA, R_m_ValueB, R_m_Value>>
            /\ UNCHANGED <<V_m_ValueA, V_m_ValueB, V_store>>
            /\ R_Registered' \ {lastOp'.observer} = R_Registered \ {lastOp'.observer}
            /\ V_Registered' \ {lastOp'.observer} = V_Registered \ {lastOp'.observer}
            /\ (lastOp'.observer \in R_Registered') = (lastOp'.op = "AttachObserver")
            /\ (lastOp'.observer \in V_Registered') = (lastOp'.op = "AttachObserver")
       /\ \A o \in UnitObservers :
            ~(lastOp'.op = "SetValueA" /\ ActsOn(o) = "ValueA")
            /\ ~(lastOp'.op = "SetValueB" /\ ActsOn(o) = "ValueB")
            => /\ R_GetValue(o)' = R_GetValue(o)
               /\ V_GetValue(o)' = V_GetValue(o)
      ]_vars

C17_Witness ==
    /\ lastOp.op = "AttachObserver"
    /\ ~lastOp.wasRegistered
    /\ lastOp.observer \in R_Registered /\ lastOp.observer \in V_Registered
    /\ R_broadcasts = <<>> /\ V_broadcasts = <<>>
    /\ R_GetValue(lastOp.observer) # R_Field(lastOp.observer)
    /\ V_GetValue(lastOp.observer) # V_Field(lastOp.observer)

\* The observer's cached value is the current value of its field.
R_InSync(o) == R_GetValue(o) = R_Field(o)

V_InSync(o) == V_GetValue(o) = V_Field(o)

\* The step is a call of the setter of the observer's tag.
OwnSetterStep(o) ==
    \/ lastOp'.op = "SetValueA" /\ ActsOn(o) = "ValueA"
    \/ lastOp'.op = "SetValueB" /\ ActsOn(o) = "ValueB"

\* C16: an attached observer whose tag's setter has been called since it was
\* last attached caches the subject's current field value. Stated step by
\* step: a call of the setter of its tag leaves every attached observer with
\* the current field value, and an attached observer that has the current
\* field value still has it after any step that leaves it attached.
C16_CacheConsistency ==
    [][\A o \in UnitObservers :
          /\ OwnSetterStep(o) /\ o \in R_Registered' => R_InSync(o)'
          /\ OwnSetterStep(o) /\ o \in V_Registered' => V_InSync(o)'
          /\ o \in R_Registered /\ o \in R_Registered' /\ R_InSync(o) => R_InSync(o)'
          /\ o \in V_Registered /\ o \in V_Registered' /\ V_InSync(o) => V_InSync(o)'
      ]_vars

C16_Witness ==
    /\ lastOp.op = "SetValueA"
    /\ "observerB" \in R_Registered /\ "observerB" \in V_Registered
    /\ R_InSync("observerB") /\ V_InSync("observerB")
    /\ R_GetValue("observerB") # 0 /\ V_GetValue("observerB") # 0
    /\ R_InSync("observerA") /\ V_InSync("observerA")
    /\ R_GetValue("observerA") # R_GetValue("observerB")
    /\ "observerBB" \notin attached
    /\ ~R_InSync("observerBB") /\ ~V_InSync("observerBB")

\* ---------------------------------------------------------------------------
\* SubjectObserverA objects of the value-semantics namespace made by each of
\* its constructors: `original` and `source` by the default constructor,
\* `copy` by the implicit copy constructor from `original`, `moved` by the
\* implicit move constructor from `source`. The moved-from `source` holds an
\* unspecified std::function and is not attached.
CopyObservers == {"original", "copy", "moved"}

CopyCells == {"original.m_Value", "copy.m_Value", "source.m_Value", "moved.m_Value"}

\* The m_Value member of each object.
OwnCell(o) ==
    CASE o = "original" -> "original.m_Value"
      [] o = "copy" -> "copy.m_Value"
      [] o = "moved" -> "moved.m_Value"

\* SubjectObserverA(): the closure [&value{m_Value}] of the object constructed.
SubjectObserverA_Default(m_Value) ==
    [target |-> "SubjectObserverA::lambda", value |-> m_Value]

\* The implicit copy and move constructors: the base Observer's std::function
\* is copied (moved) with its captured reference as it is.
SubjectObserverA_Copy(m_OnNotification) == m_OnNotification

\* The std::function each object holds.
CopyCallable(o) ==
    CASE o = "original" -> SubjectObserverA_Default("original.m_Value")
      [] o = "copy" ->
            SubjectObserverA_Copy(SubjectObserverA_Default("original.m_Value"))
      [] o = "moved" ->
            SubjectObserverA_Copy(SubjectObserverA_Default("source.m_Value"))

CopyInit ==
    /\ R_addr = << >>
    /\ R_class = << >>
    /\ R_m_Observers = {}
    /\ R_m_ValueA = 0
    /\ R_m_ValueB = 0
    /\ R_m_Value = << >>
    /\ R_broadcasts = <<>>
    /\ V_addr \in Placements(CopyObservers)
    /\ V_m_OnNotification = [o \in CopyObservers |-> CopyCallable(o)]
    /\ V_m_Observers = {}
    /\ V_m_ValueA = 0
    /\ V_m_ValueB = 0
    /\ V_store = [c \in CopyCells |-> 0]
    /\ V_broadcasts = <<>>
    /\ attached = {}
    /\ lastOp = [op |-> "none"]

CopyNext ==
    \/ \E o \in CopyObservers : BenchAttachObserver(o)
    \/ \E o \in CopyObservers : BenchDetachObserver(o)
    \/ \E value \in Values : BenchSetValueA(value)
    \/ \E value \in Values : BenchSetValueB(value)

CopySpec == CopyInit /\ [][CopyNext]_vars

\* C15: a ValueA notification delivered to a SubjectObserverA instance,
\* however it was constructed, stores the new value in that instance's own
\* m_Value, and the m_Value of every instance not notified stays as it was.
C15_ClosureWritesOwnState ==
    [][lastOp'.op = "SetValueA" =>
          \A o \in CopyObservers :
              IF o \in V_Registered'
              THEN V_store'[OwnCell(o)] = lastOp'.value
              ELSE V_store'[OwnCell(o)] = V_store[OwnCell(o)]
      ]_vars

\* Every order in which the observers of a set can be visited.
Orders(objs) ==
    {order \in [1..Cardinality(objs) -> objs] :
        \A i, j \in DOMAIN order : order[i] = order[j] => i = j}

\* The callbacks of a broadcast run in the order given.
RECURSIVE R_NotifyInOrder(_, _, _, _)
R_NotifyInOrder(order, values, subject, tag) ==
    IF order = <<>>
    THEN values
    ELSE R_NotifyInOrder(Tail(order),
                         R_OnNotification(Head(order), values, subject, tag),
                         subject, tag)

RECURSIVE V_NotifyInOrder(_, _, _, _)
V_NotifyInOrder(order, store, subject, tag) ==
    IF order = <<>>
    THEN store
    ELSE V_NotifyInOrder(Tail(order),
                         V_OnNotification(V_m_OnNotification[Head(order)], store,
                                          subject, tag),
                         subject, tag)

\* The tag a setter step broadcasts.
StepTag == IF lastOp'.op = "SetValueA" THEN "ValueA" ELSE "ValueB"

LiveObservers == {"detacher", "victim", "bystander"}

LiveCallable(o) ==
    CASE o = "detacher" -> [target |-> "DetachObserver", value |-> "victim"]
      [] o = "victim" -> [target |-> "observerB::lambda", value |-> "lambdaValueB"]
      [] o = "bystander" -> [target |-> "OnNotification", value |-> "none"]

\* Observer::OnNotification on the subject's set and the written integers:
\* the detaching callable erases the captured observer from m_Observers, the
\* other callables write their integer.
V_LiveOnNotification(func, observers, store, subject, tag) ==
    IF func.target = "DetachObserver"
    THEN [observers |-> erase(observers, V_addr[func.value]), store |-> store]
    ELSE [observers |-> observers,
          store |-> V_OnNotification(func, store, subject, tag)]

\* The range-for walking a copy of m_Observers taken when the broadcast began.
RECURSIVE V_LiveLoop_Snapshot(_, _, _, _, _)
V_LiveLoop_Snapshot(it, observers, subject, tag, acc) ==
    IF it = End
    THEN acc
    ELSE LET o == ObjectAt(V_addr, it)
             after == V_LiveOnNotification(V_m_OnNotification[o], acc.observers,
                                           acc.store, subject, tag)
         IN  V_LiveLoop_Snapshot(Increment(observers, it), observers, subject, tag,
                    [observers |-> after.observers,
                     store |-> after.store,
                     calls |-> Append(acc.calls, Call(o, subject, tag))])

\* The range-for of SendNotification from position `it` on, over m_Observers
\* as the callbacks leave it: ++it moves on in the set as it is then.
RECURSIVE V_LiveLoop(_, _, _, _, _)
V_LiveLoop(it, observers, subject, tag, acc) ==
    IF it = End
    THEN acc
    ELSE LET o == ObjectAt(V_addr, it)
             after == V_LiveOnNotification(V_m_OnNotification[o], observers,
                                           acc.store, subject, tag)
         IN  V_LiveLoop(Increment(after.observers, it), after.observers, subject, tag,
                    [observers |-> after.observers,
                     store |-> after.store,
                     calls |-> Append(acc.calls, Call(o, subject, tag))])

V_LiveSendNotification(observers, subject, tag, store) ==
    V_LiveLoop(Begin(observers), observers, subject, tag,
               [observers |-> observers, store |-> store, calls |-> <<>>])

LiveInit ==
    /\ R_addr = << >>
    /\ R_class = << >>
    /\ R_m_Observers = {}
    /\ R_m_ValueA = 0
    /\ R_m_ValueB = 0
    /\ R_m_Value = << >>
    /\ R_broadcasts = <<>>
    /\ V_addr \in Placements(LiveObservers)
    /\ V_m_OnNotification = [o \in LiveObservers |-> LiveCallable(o)]
    /\ V_m_Observers = {}
    /\ V_m_ValueA = 0
    /\ V_m_ValueB = 0
    /\ V_store = [c \in Cells |-> 0]
    /\ V_broadcasts = <<>>
    /\ attached = {}
    /\ lastOp = [op |-> "none"]

\* SetValueA / SetValueB; lastOp also keeps the observers registered when the
\* call was made.
LiveSetValueA(value) ==
    LET sent == V_LiveSendNotification(V_m_Observers, View(value, V_m_ValueB),
                                       "ValueA", V_store)
    IN  /\ V_m_ValueA' = value
        /\ V_m_Observers' = sent.observers
        /\ V_store' = sent.store
        /\ V_broadcasts' = <<[tag |-> "ValueA", calls |-> sent.calls]>>
        /\ lastOp' = [op |-> "SetValueA", value |-> value,
                      wasRegistered |-> {o \in LiveObservers : V_addr[o] \in V_m_Observers}]
        /\ UNCHANGED <<V_addr, V_m_OnNotification, V_m_ValueB, R_vars, attached>>

LiveSetValueB(value) ==
    LET sent == V_LiveSendNotification(V_m_Observers, View(V_m_ValueA, value),
                                       "ValueB", V_store)
    IN  /\ V_m_ValueB' = value
        /\ V_m_Observers' = sent.observers
        /\ V_store' = sent.store
        /\ V_broadcasts' = <<[tag |-> "ValueB", calls |-> sent.calls]>>
        /\ lastOp' = [op |-> "SetValueB", value |-> value,
                      wasRegistered |-> {o \in LiveObservers : V_addr[o] \in V_m_Observers}]
        /\ UNCHANGED <<V_addr, V_m_OnNotification, V_m_ValueA, R_vars, attached>>

LiveNext ==
    \/ \E o \in LiveObservers : BenchAttachObserver(o)
    \/ \E o \in LiveObservers : BenchDetachObserver(o)
    \/ \E value \in Values : LiveSetValueA(value)
    \/ \E value \in Values : LiveSetValueB(value)

LiveSpec == LiveInit /\ [][LiveNext]_vars

\* C19: a broadcast walks the registered set as it is at each step, not a
\* copy made at its start: an observer a callback detaches before the walk has
\* come to it is not called in this broadcast (one detached after its turn has
\* been called), every observer registered from the start to the end of the
\* broadcast is called exactly once, and no other observer is called.
C19_WalksLiveSet ==
    IsSetter =>
        \A o \in LiveObservers :
            LET n == TimesCalled(V_broadcasts[1], o)
            IN  /\ o \in lastOp.wasRegistered /\ o \in V_Registered => n = 1
                /\ o \notin lastOp.wasRegistered => n = 0 /\ o \notin V_Registered
                /\ o \in lastOp.wasRegistered /\ o \notin V_Registered =>
                      /\ "detacher" \in Notified(V_broadcasts[1])
                      /\ o = "victim"
                      /\ n = IF V_addr[o] < V_addr["detacher"] THEN 1 ELSE 0

C19_Witness ==
    /\ lastOp.op = "SetValueB"
    /\ lastOp.wasRegistered = LiveObservers
    /\ V_addr["detacher"] < V_addr["victim"]
    /\ V_addr["victim"] < V_addr["bystander"]
    /\ Notified(V_broadcasts[1]) = {"detacher", "bystander"}
    /\ V_Registered = {"detacher", "bystander"}
    /\ lastOp.value # 0
    /\ V_store["freeFuncValueB"] = lastOp.value
    /\ V_store["lambdaValueB"] # lastOp.value

====
